---------------------------- MODULE Spec2Model ----------------------------
(***************************************************************************)
(* A model of the aoc_tools crate: the flat row-major Grid (src/grid.rs),  *)
(* the Pair string parser (src/pair.rs) and the text / file parsing        *)
(* helpers (src/parse.rs, src/input.rs).                                   *)
(*                                                                         *)
(* Five specifications share the module:                                   *)
(*   SpecGrid     a grid is constructed and then read through its          *)
(*                accessors                                                *)
(*   SpecGridMut  SpecGrid, and the caller stores through the mutable      *)
(*                references the accessors return                          *)
(*   SpecInput  a parsing helper is called on a text or a file and its     *)
(*              result is consumed item by item                            *)
(*   SpecPair   Pair::from_str is applied to a string                      *)
(*   SpecDist   Pair::distance_manhattan is applied to two pairs of an     *)
(*              unsigned integer type                                      *)
(***************************************************************************)
EXTENDS Integers, Sequences, FiniteSets, TLC

VARIABLES
    debug_build,  \* the build profile: debug_assert! and overflow checks are on
    gst,          \* "none" | "built" | "panicked" | "diverged"
    grid,         \* the Grid value: [flat, len_x, len_y]
    call,         \* the constructor call that produced the grid
    ret,          \* the last accessor call and what it returned
    writes,       \* number of stores made through &mut references
    stream,       \* the text, or the bytes and read failures of the file
    ty,           \* the target type T of the parsing helper
    file_exists,  \* whether File::open finds the file
    helper,       \* the helper that was called, "none" before the call
    opened,       \* the helper's io::Result: "none" | "Ok" | "Err"
    out,          \* the items the helper's result has yielded so far
    fin,          \* the result was consumed to its end
    pstr,         \* the string handed to Pair::from_str
    pty,          \* the component type U of the Pair
    pres,         \* what Pair::from_str returned
    overflow_checks, \* the build panics on integer overflow (debug profile)
    lhs,          \* self of distance_manhattan
    rhs,          \* the argument of distance_manhattan
    dist          \* what distance_manhattan returned, and how

gvars == <<debug_build, gst, grid, call, ret, writes>>
ivars == <<stream, ty, file_exists, helper, opened, out, fin>>
pvars == <<pstr, pty, pres>>
dvars == <<overflow_checks, lhs, rhs, dist>>

vars == <<gvars, ivars, pvars, dvars>>

-----------------------------------------------------------------------------
(* Bounds of the model *)

MaxDim == 3        \* len_x, len_y of a constructor call range over 0..MaxDim
MaxThickness == 2  \* border thickness ranges over 0..MaxThickness
MaxInput == 6      \* length of the vector / iterator handed to a constructor
MaxCoord == 3      \* accessor coordinates range over 0..MaxCoord
MaxWrites == 1     \* stores through &mut references per behaviour
MaxStream == 4     \* length of the text / file handed to a parsing helper
MaxPairLen == 5    \* length of the string handed to Pair::from_str
MaxComponent == 7  \* U::MAX of the unsigned component type of a Pair
UsizeMax == 65535  \* usize::MAX of the modelled machine word

Dims == 0..MaxDim
Coords == 0..MaxCoord
FlatIdxs == 0..((2 * MaxCoord) + 1)
BorderValues == {0}
InitValues == {0}
WriteValues == {9}

-----------------------------------------------------------------------------
(* Sequence helpers (Vec / Iterator adaptors of the standard library) *)

Min(a, b) == IF a <= b THEN a ELSE b

\* vec![v; n]
Rep(v, n) == [i \in 1..n |-> v]

\* Iterator::take(n) / Vec::truncate(n)
Take(s, n) == SubSeq(s, 1, Min(n, Len(s)))

\* what is left of an iterator after take(n) was consumed by_ref
Drop(s, n) == SubSeq(s, Min(n, Len(s)) + 1, Len(s))

\* the input sequence of n elements; element k is the value k, so that a
\* cell's content tells which input element it holds (T is opaque to Grid)
Input(n) == [i \in 1..n |-> i]

\* usize arithmetic of a release build wraps
Wrap(n) == n % (UsizeMax + 1)

-----------------------------------------------------------------------------
(* Grid<T> *)

MkGrid(flat, len_x, len_y) == [flat |-> flat, len_x |-> len_x, len_y |-> len_y]

NoGrid == MkGrid(<<>>, 0, 0)

Built(g) == [res |-> "ok", grid |-> g]
CtorPanic == [res |-> "panic", grid |-> NoGrid]
CtorDiverge == [res |-> "diverge", grid |-> NoGrid]

\* Grid::new
new(len_x, len_y, init) == Built(MkGrid(Rep(init, len_x * len_y), len_x, len_y))

\* Grid::from_vec: the length check is a debug_assert!, absent from a
\* release build; truncate only shortens
from_vec(len_x, len_y, v, dbg) ==
    IF dbg /\ ~(Len(v) >= len_x * len_y)
    THEN CtorPanic
    ELSE Built(MkGrid(Take(v, len_x * len_y), len_x, len_y))

\* Grid::from_iter
from_iter(len_x, len_y, iter, dbg) ==
    LET size == len_x * len_y
        flat == Take(iter, size)
    IN  IF dbg /\ ~(Len(flat) = size)
        THEN CtorPanic
        ELSE from_vec(len_x, len_y, flat, dbg)

\* the while loop of Grid::with_borders: one interior row per turn, as long
\* as the peekable iterator has an item
RECURSIVE with_borders_loop(_, _, _, _, _)
with_borders_loop(flat, iter, len_x, border, thickness) ==
    IF iter = <<>>
    THEN flat
    ELSE with_borders_loop(
            flat \o Rep(border, thickness) \o Take(iter, len_x) \o Rep(border, thickness),
            Drop(iter, len_x), len_x, border, thickness)

\* Grid::with_borders.  With len_x = 0 and a non-empty iterator take(0)
\* consumes nothing and the loop never ends.
with_borders(len_x, border, thickness, iter, dbg) ==
    LET len == len_x + 2
        upper == Rep(border, len * thickness)
    IN  IF len_x = 0 /\ iter # <<>>
        THEN CtorDiverge
        ELSE LET body == with_borders_loop(upper, iter, len_x, border, thickness)
                 flat == body \o Rep(border, ((1 + thickness) * len) - (Len(body) % len))
             IN  from_vec(len, Len(flat) \div len, flat, dbg)

\* Grid::index (private): flat offset of (x, y)
index(g, x, y) == Wrap((g.len_x * y) + x)

\* What an accessor returns: a panic, or references to the r2 cells at the
\* offsets r1, r1 + r3, r1 + 2 * r3, ... of flat (xy_index: the pair (r1, r2))
Panic == [res |-> "panic", r1 |-> 0, r2 |-> 0, r3 |-> 0]
View(off, cnt, step) == [res |-> "ok", r1 |-> off, r2 |-> cnt, r3 |-> step]

\* Grid::xy_index dividing by len_y, as the doc comment of get_flat has it
xy_index_by_len_y(g, idx) ==
    IF g.len_x = 0 \/ g.len_y = 0
    THEN Panic
    ELSE [res |-> "ok", r1 |-> idx % g.len_x, r2 |-> idx \div g.len_y, r3 |-> 0]

\* Grid::xy_index: remainder and quotient by len_x; a zero len_x panics
xy_index(g, idx) ==
    IF g.len_x = 0
    THEN Panic
    ELSE [res |-> "ok", r1 |-> idx % g.len_x, r2 |-> idx \div g.len_x, r3 |-> 0]

\* &self.flat[idx], &mut self.flat[idx] and self.flat.get(idx).unwrap(): a
\* reference to the cell at offset idx, or a panic
flat_ref(g, idx) == IF idx < Len(g.flat) THEN View(idx, 1, 1) ELSE Panic

\* Grid::get / Grid::get_mut, and through them Index / IndexMut with a tuple
\* or a Pair: the cell the returned reference points to
get(g, x, y) == flat_ref(g, index(g, x, y))

\* Grid::get_flat / Grid::get_flat_mut
get_flat(g, idx) == flat_ref(g, idx)

\* &self.flat[a..=b]
slice_inclusive(g, a, b) ==
    IF b = UsizeMax \/ a > b + 1 \/ b + 1 > Len(g.flat)
    THEN Panic
    ELSE View(a, (b + 1) - a, 1)

\* Grid::row / Grid::row_mut: self.len_x - 1 underflows for len_x = 0, which
\* panics with overflow checks and wraps without
row(g, y, dbg) ==
    IF g.len_x = 0 /\ dbg
    THEN Panic
    ELSE slice_inclusive(g, index(g, 0, y), index(g, Wrap((g.len_x - 1) + (UsizeMax + 1)), y))

\* Grid::iter / Grid::iter_mut: the flat vector's own iterator
iter_mut(g) == View(0, Len(g.flat), 1)

\* Grid::iter_col / Grid::iter_col_mut: skip(x).step_by(len_x); step_by(0)
\* panics
iter_col_mut(g, x) ==
    IF g.len_x = 0
    THEN Panic
    ELSE View(x, IF x < Len(g.flat) THEN ((Len(g.flat) - x) + (g.len_x - 1)) \div g.len_x ELSE 0,
              g.len_x)

\* the grid after v was stored through a reference to the cell at offset idx
Written(g, idx, v) == [g EXCEPT !.flat[idx + 1] = v]

-----------------------------------------------------------------------------
(* SpecGrid: a constructor call, then accessor calls.                      *)
(* SpecGridMut: the same, and stores through the &mut references returned. *)

NoCall == [fn |-> "none", len_x |-> 0, len_y |-> 0, thickness |-> 0, border |-> 0, n |-> 0]
NoRet == [op |-> "none", a |-> 0, b |-> 0, res |-> "none", r1 |-> 0, r2 |-> 0, r3 |-> 0]

MkRet(op, a, b, r) ==
    [op |-> op, a |-> a, b |-> b, res |-> r.res, r1 |-> r.r1, r2 |-> r.r2, r3 |-> r.r3]

MutAccessors == {"get_mut", "get_flat_mut", "row_mut", "iter_mut", "iter_col_mut"}

\* the variables of a component that a specification does not run
GridIdle ==
    /\ debug_build = FALSE
    /\ gst = "none"
    /\ grid = NoGrid
    /\ call = NoCall
    /\ ret = NoRet
    /\ writes = 0

InputIdle ==
    /\ stream = <<>>
    /\ ty = "i32"
    /\ file_exists = FALSE
    /\ helper = "none"
    /\ opened = "none"
    /\ out = <<>>
    /\ fin = FALSE

PairIdle ==
    /\ pstr = <<>>
    /\ pty = "i32"
    /\ pres = [st |-> "none", x |-> 0, y |-> 0]

NoDist == [st |-> "none", v |-> 0, wrapped |-> FALSE]

DistIdle ==
    /\ overflow_checks = FALSE
    /\ lhs = [x |-> 0, y |-> 0]
    /\ rhs = [x |-> 0, y |-> 0]
    /\ dist = NoDist

InitGrid ==
    /\ debug_build \in BOOLEAN
    /\ gst = "none"
    /\ grid = NoGrid
    /\ call = NoCall
    /\ ret = NoRet
    /\ writes = 0
    /\ InputIdle
    /\ PairIdle
    /\ DistIdle

\* the state after a constructor call c that ended as r
Constructed(c, r) ==
    /\ gst = "none"
    /\ call' = c
    /\ gst' = CASE r.res = "ok" -> "built"
                [] r.res = "panic" -> "panicked"
                [] OTHER -> "diverged"
    /\ grid' = r.grid
    /\ UNCHANGED <<debug_build, ret, writes, ivars, pvars, dvars>>

New ==
    \E len_x \in Dims, len_y \in Dims, init \in InitValues :
        Constructed([NoCall EXCEPT !.fn = "new", !.len_x = len_x, !.len_y = len_y,
                                   !.border = init],
                    new(len_x, len_y, init))

FromVec ==
    \E len_x \in Dims, len_y \in Dims, n \in 0..MaxInput :
        Constructed([NoCall EXCEPT !.fn = "from_vec", !.len_x = len_x, !.len_y = len_y,
                                   !.n = n],
                    from_vec(len_x, len_y, Input(n), debug_build))

FromIter ==
    \E len_x \in Dims, len_y \in Dims, n \in 0..MaxInput :
        Constructed([NoCall EXCEPT !.fn = "from_iter", !.len_x = len_x, !.len_y = len_y,
                                   !.n = n],
                    from_iter(len_x, len_y, Input(n), debug_build))

WithBorders ==
    \E len_x \in Dims, border \in BorderValues, thickness \in 0..MaxThickness,
       n \in 0..MaxInput :
        Constructed([NoCall EXCEPT !.fn = "with_borders", !.len_x = len_x,
                                   !.thickness = thickness, !.border = border, !.n = n],
                    with_borders(len_x, border, thickness, Input(n), debug_build))

\* an accessor call with arguments a, b that ended as r: the grid is left
\* alone, a panic ends the program
Called(op, a, b, r) ==
    /\ gst = "built"
    /\ ret' = MkRet(op, a, b, r)
    /\ gst' = IF r.res = "panic" THEN "panicked" ELSE gst
    /\ UNCHANGED <<debug_build, grid, call, writes, ivars, pvars, dvars>>

Get == \E x \in Coords, y \in Coords : Called("get", x, y, get(grid, x, y))

GetMut == \E x \in Coords, y \in Coords : Called("get_mut", x, y, get(grid, x, y))

GetFlat == \E idx \in FlatIdxs : Called("get_flat", idx, 0, get_flat(grid, idx))

GetFlatMut == \E idx \in FlatIdxs : Called("get_flat_mut", idx, 0, get_flat(grid, idx))

Row == \E y \in Coords : Called("row", y, 0, row(grid, y, debug_build))

RowMut == \E y \in Coords : Called("row_mut", y, 0, row(grid, y, debug_build))

IterMut == Called("iter_mut", 0, 0, iter_mut(grid))

IterColMut == \E x \in Coords : Called("iter_col_mut", x, 0, iter_col_mut(grid, x))

XyIndex == \E idx \in FlatIdxs : Called("xy_index", idx, 0, xy_index(grid, idx))

\* the caller stores v through the k-th of the &mut references the last
\* accessor call returned
Store ==
    /\ gst = "built"
    /\ ret.op \in MutAccessors
    /\ ret.res = "ok"
    /\ writes < MaxWrites
    /\ \E k \in FlatIdxs, v \in WriteValues :
            /\ k < ret.r2
            /\ grid' = Written(grid, ret.r1 + (k * ret.r3), v)
    /\ writes' = writes + 1
    /\ UNCHANGED <<debug_build, gst, call, ret, ivars, pvars, dvars>>

NextGrid ==
    \/ New
    \/ FromVec
    \/ FromIter
    \/ WithBorders
    \/ Get
    \/ GetMut
    \/ GetFlat
    \/ GetFlatMut
    \/ Row
    \/ RowMut
    \/ IterMut
    \/ IterColMut
    \/ XyIndex

SpecGrid == InitGrid /\ [][NextGrid]_vars

NextGridMut == NextGrid \/ Store

SpecGridMut == InitGrid /\ [][NextGridMut]_vars

-----------------------------------------------------------------------------
(* Texts, files and the standard library's splitting iterators *)

\* A text is a sequence of characters: digits, a letter, the newline and the
\* separator.  A file is a sequence of bytes, among them a byte that is not
\* valid UTF-8, and of points where the read fails ("ERR", not a byte).
TextSymbols == {"1", "2", "x", "LF", ","}
FileSymbols == TextSymbols \cup {"BAD", "ERR"}

SeqsUpTo(S, n) == UNION {[1..k -> S] : k \in 0..n}

Range(f) == {f[k] : k \in DOMAIN f}

IsText(s) == Range(s) \subseteq TextSymbols

\* position of the first element of s that is in set, 0 if there is none
FirstPos(s, set) ==
    IF \E k \in 1..Len(s) : s[k] \in set
    THEN CHOOSE k \in 1..Len(s) : s[k] \in set /\ \A j \in 1..(k - 1) : s[j] \notin set
    ELSE 0

StripSuffix(buf, c) ==
    IF buf # <<>> /\ buf[Len(buf)] = c THEN SubSeq(buf, 1, Len(buf) - 1) ELSE buf

OkItem(v) == [ok |-> TRUE, v |-> v, e |-> ""]
ErrItem(e) == [ok |-> FALSE, v |-> <<>>, e |-> e]

\* BufRead::read_until: the bytes up to and including delim, or to the end of
\* the file; a failing read loses what the call has read so far
read_until(s, delim) ==
    LET p == FirstPos(s, {delim, "ERR"})
    IN  IF p = 0 THEN [used |-> Len(s), buf |-> s, err |-> FALSE]
        ELSE IF s[p] = "ERR" THEN [used |-> p, buf |-> <<>>, err |-> TRUE]
        ELSE [used |-> p, buf |-> SubSeq(s, 1, p), err |-> FALSE]

\* io::Split, the iterator of BufRead::split(delim): one io::Result<Vec<u8>>
\* per read_until, until a read returns no byte
RECURSIVE BufSplit(_, _)
BufSplit(s, delim) ==
    IF s = <<>>
    THEN <<>>
    ELSE LET r == read_until(s, delim)
             item == IF r.err THEN ErrItem("io") ELSE OkItem(StripSuffix(r.buf, delim))
         IN  <<item>> \o BufSplit(SubSeq(s, r.used + 1, Len(s)), delim)

\* io::Lines, the iterator of BufRead::lines(): one io::Result<String> per
\* read_line; a line that is not UTF-8 is an InvalidData error
RECURSIVE BufLines(_)
BufLines(s) ==
    IF s = <<>>
    THEN <<>>
    ELSE LET r == read_until(s, "LF")
             item == IF r.err THEN ErrItem("io")
                     ELSE IF "BAD" \in Range(r.buf) THEN ErrItem("utf8")
                     ELSE OkItem(StripSuffix(r.buf, "LF"))
         IN  <<item>> \o BufLines(SubSeq(s, r.used + 1, Len(s)))

\* str::lines: the text split after each newline, the newline removed
RECURSIVE StrLines(_)
StrLines(s) ==
    IF s = <<>>
    THEN <<>>
    ELSE LET p == FirstPos(s, {"LF"})
         IN  IF p = 0
             THEN <<OkItem(s)>>
             ELSE <<OkItem(SubSeq(s, 1, p - 1))>> \o StrLines(SubSeq(s, p + 1, Len(s)))

\* str::split(pat): the text between the separators, empty pieces included
RECURSIVE StrSplit(_, _)
StrSplit(s, pat) ==
    LET p == FirstPos(s, {pat})
    IN  IF p = 0
        THEN <<OkItem(s)>>
        ELSE <<OkItem(SubSeq(s, 1, p - 1))>> \o StrSplit(SubSeq(s, p + 1, Len(s)), pat)

\* every item with its position in the underlying iterator
Tag(items) ==
    [k \in 1..Len(items) |->
        [i |-> k, ok |-> items[k].ok, v |-> items[k].v, e |-> items[k].e]]

-----------------------------------------------------------------------------
(* str::parse and the iterator adaptors *)

DigitValue(c) == CASE c = "1" -> 1 [] c = "2" -> 2

RECURSIVE DecValue(_)
DecValue(f) ==
    IF f = <<>> THEN 0
    ELSE (DecValue(SubSeq(f, 1, Len(f) - 1)) * 10) + DigitValue(f[Len(f)])

\* <T as FromStr>::from_str for T = i32 (decimal digits, at least one; the
\* texts are too short to overflow), T = String (never fails) and T = char
\* (exactly one character)
FromStr(t, f) ==
    CASE t = "i32" ->
            IF f # <<>> /\ \A k \in 1..Len(f) : f[k] \in {"1", "2"}
            THEN [ok |-> TRUE, v |-> DecValue(f)]
            ELSE [ok |-> FALSE, v |-> 0]
      [] t = "String" -> [ok |-> TRUE, v |-> f]
      [] t = "char" ->
            IF Len(f) = 1 THEN [ok |-> TRUE, v |-> f] ELSE [ok |-> FALSE, v |-> <<>>]

\* |s| s.parse::<T>() on an item
parse(t, x) ==
    LET r == FromStr(t, x.v)
    IN  [i |-> x.i, ok |-> r.ok, v |-> r.v, e |-> IF r.ok THEN "" ELSE "parse"]

\* String::from_utf8 on an item
from_utf8(x) ==
    IF "BAD" \in Range(x.v) THEN [i |-> x.i, ok |-> FALSE, v |-> <<>>, e |-> "utf8"] ELSE x

IsOk(x) == x.ok
NonEmpty(x) == x.v # <<>>

\* Iterator::map
Map(xs, F(_)) == [k \in 1..Len(xs) |-> F(xs[k])]

\* Iterator::map_while(Result::ok): ends at the first Err
map_while_ok(xs) ==
    LET p == FirstPos([k \in 1..Len(xs) |-> xs[k].ok], {FALSE})
    IN  IF p = 0 THEN xs ELSE SubSeq(xs, 1, p - 1)

\* Iterator::flatten over Results: an Err gives no item, the iteration goes on
flatten(xs) == SelectSeq(xs, IsOk)

\* Iterator::flat_map with a closure that returns a Result
flat_map(xs, F(_)) == flatten(Map(xs, F))

\* Iterator::filter(|v| !v.is_empty())
filter_non_empty(xs) == SelectSeq(xs, NonEmpty)

-----------------------------------------------------------------------------
(* src/input.rs: helpers over a file *)

lines_to_vec(t, s) == flat_map(map_while_ok(Tag(BufLines(s))), LAMBDA x : parse(t, x))

split_to_vec(t, s) ==
    flat_map(flat_map(filter_non_empty(flatten(Tag(BufSplit(s, ",")))), from_utf8),
             LAMBDA x : parse(t, x))

lines_parsed(t, s) == flat_map(map_while_ok(Tag(BufLines(s))), LAMBDA x : parse(t, x))

lines_parsed_explicit(t, s) == Map(map_while_ok(Tag(BufLines(s))), LAMBDA x : parse(t, x))

input_split(s) == flat_map(filter_non_empty(flatten(Tag(BufSplit(s, ",")))), from_utf8)

split_parsed(t, s) == flat_map(input_split(s), LAMBDA x : parse(t, x))

\* split_parsed_explicit with flat_map for map: parse failures dropped
split_parsed_explicit_dropping(t, s) == flat_map(input_split(s), LAMBDA x : parse(t, x))

split_parsed_explicit(t, s) == Map(input_split(s), LAMBDA x : parse(t, x))

(* src/parse.rs: helpers over a string slice *)

\* lines_into_vec with map_while for flat_map: ends at the first failure
lines_into_vec_stopping(t, s) == map_while_ok(Map(Tag(StrLines(s)), LAMBDA x : parse(t, x)))

lines_into_vec(t, s) == flat_map(Tag(StrLines(s)), LAMBDA x : parse(t, x))

split_into_vec(t, s) == flat_map(Tag(StrSplit(s, ",")), LAMBDA x : parse(t, x))

parse_lines(t, s) == flat_map(Tag(StrLines(s)), LAMBDA x : parse(t, x))

lines_cloneable(t, s) == flatten(Map(Tag(StrLines(s)), LAMBDA x : parse(t, x)))

parse_split(t, s) == flat_map(Tag(StrSplit(s, ",")), LAMBDA x : parse(t, x))

-----------------------------------------------------------------------------
(* SpecInput: a helper is called, and its result consumed item by item *)

LazyFileHelpers ==
    {"lines_parsed", "lines_parsed_explicit", "split", "split_parsed", "split_parsed_explicit"}
LazyStrHelpers == {"parse::lines", "parse::lines_cloneable", "parse::split"}

\* the items the iterator a lazy helper returned yields, in order
Yield(h, t, s) ==
    CASE h = "lines_parsed" -> lines_parsed(t, s)
      [] h = "lines_parsed_explicit" -> lines_parsed_explicit(t, s)
      [] h = "split" -> input_split(s)
      [] h = "split_parsed" -> split_parsed(t, s)
      [] h = "split_parsed_explicit" -> split_parsed_explicit(t, s)
      [] h = "parse::lines" -> parse_lines(t, s)
      [] h = "parse::lines_cloneable" -> lines_cloneable(t, s)
      [] h = "parse::split" -> parse_split(t, s)

InitInput ==
    /\ stream \in SeqsUpTo(FileSymbols, MaxStream)
    /\ ty \in {"i32", "String"}
    /\ file_exists \in BOOLEAN
    /\ helper = "none"
    /\ opened = "none"
    /\ out = <<>>
    /\ fin = FALSE
    /\ GridIdle
    /\ PairIdle
    /\ DistIdle

\* a helper of input.rs that collects: buf_reader(filename)? returns the
\* error of File::open, else the whole vector is built
CallFileEager(h, whole) ==
    /\ helper = "none"
    /\ helper' = h
    /\ opened' = IF file_exists THEN "Ok" ELSE "Err"
    /\ out' = IF file_exists THEN whole ELSE <<>>
    /\ fin' = TRUE
    /\ UNCHANGED <<stream, ty, file_exists, gvars, pvars, dvars>>

\* a helper of input.rs that returns an iterator, nothing read yet
CallFileLazy(h) ==
    /\ helper = "none"
    /\ helper' = h
    /\ opened' = IF file_exists THEN "Ok" ELSE "Err"
    /\ out' = <<>>
    /\ fin' = ~file_exists
    /\ UNCHANGED <<stream, ty, file_exists, gvars, pvars, dvars>>

\* a helper of parse.rs that collects; its input is a &str
CallStrEager(h, whole) ==
    /\ helper = "none"
    /\ IsText(stream)
    /\ helper' = h
    /\ opened' = "Ok"
    /\ out' = whole
    /\ fin' = TRUE
    /\ UNCHANGED <<stream, ty, file_exists, gvars, pvars, dvars>>

\* a helper of parse.rs that returns an iterator
CallStrLazy(h) ==
    /\ helper = "none"
    /\ IsText(stream)
    /\ helper' = h
    /\ opened' = "Ok"
    /\ out' = <<>>
    /\ fin' = FALSE
    /\ UNCHANGED <<stream, ty, file_exists, gvars, pvars, dvars>>

LinesToVec == CallFileEager("lines_to_vec", lines_to_vec(ty, stream))
SplitToVec == CallFileEager("split_to_vec", split_to_vec(ty, stream))
LinesParsed == CallFileLazy("lines_parsed")
LinesParsedExplicit == CallFileLazy("lines_parsed_explicit")
Split == CallFileLazy("split")
SplitParsed == CallFileLazy("split_parsed")
SplitParsedExplicit == CallFileLazy("split_parsed_explicit")
LinesIntoVec == CallStrEager("parse::lines_into_vec", lines_into_vec(ty, stream))
SplitIntoVec == CallStrEager("parse::split_into_vec", split_into_vec(ty, stream))
ParseLines == CallStrLazy("parse::lines")
ParseLinesCloneable == CallStrLazy("parse::lines_cloneable")
ParseSplit == CallStrLazy("parse::split")

\* Iterator::next on the iterator a lazy helper returned
IterNext ==
    /\ helper \in LazyFileHelpers \cup LazyStrHelpers
    /\ opened = "Ok"
    /\ ~fin
    /\ LET whole == Yield(helper, ty, stream)
       IN  IF Len(out) < Len(whole)
           THEN out' = Append(out, whole[Len(out) + 1]) /\ fin' = FALSE
           ELSE out' = out /\ fin' = TRUE
    /\ UNCHANGED <<stream, ty, file_exists, helper, opened, gvars, pvars, dvars>>

NextInput ==
    \/ LinesToVec
    \/ SplitToVec
    \/ LinesParsed
    \/ LinesParsedExplicit
    \/ Split
    \/ SplitParsed
    \/ SplitParsedExplicit
    \/ LinesIntoVec
    \/ SplitIntoVec
    \/ ParseLines
    \/ ParseLinesCloneable
    \/ ParseSplit
    \/ IterNext

SpecInput == InitInput /\ [][NextInput]_vars

-----------------------------------------------------------------------------
(* src/pair.rs: Pair::from_str, and SpecPair *)

PairSymbols == {"1", "2", "x", ","}

\* <Pair<U> as FromStr>::from_str: the first two pieces of s.split(',')
from_str(u, s) ==
    LET iter == StrSplit(s, ",")
    IN  IF Len(iter) < 1 THEN [st |-> "Err", x |-> 0, y |-> 0]
        ELSE LET x == FromStr(u, iter[1].v)
             IN  IF ~x.ok THEN [st |-> "Err", x |-> 0, y |-> 0]
                 ELSE IF Len(iter) < 2 THEN [st |-> "Err", x |-> 0, y |-> 0]
                 ELSE LET y == FromStr(u, iter[2].v)
                      IN  IF ~y.ok THEN [st |-> "Err", x |-> 0, y |-> 0]
                          ELSE [st |-> "Ok", x |-> x.v, y |-> y.v]

InitPair ==
    /\ pstr \in SeqsUpTo(PairSymbols, MaxPairLen)
    /\ pty \in {"i32", "char"}
    /\ pres = [st |-> "none", x |-> 0, y |-> 0]
    /\ GridIdle
    /\ InputIdle
    /\ DistIdle

PairFromStr ==
    /\ pres.st = "none"
    /\ pres' = from_str(pty, pstr)
    /\ UNCHANGED <<pstr, pty, gvars, ivars, dvars>>

NextPair == PairFromStr

SpecPair == InitPair /\ [][NextPair]_vars

-----------------------------------------------------------------------------
(* src/pair.rs: Pair::distance_manhattan on an unsigned type, and SpecDist *)

Components == 0..MaxComponent
Pairs == [x : Components, y : Components]

\* cmp::max, cmp::min
max(a, b) == IF a >= b THEN a ELSE b
min(a, b) == IF a <= b THEN a ELSE b

\* a value of U, or the panic of an arithmetic overflow; wrapped tells that
\* an operation on the way went out of range and was reduced modulo U::MAX + 1
Num(v) == [st |-> "Ok", v |-> v, wrapped |-> FALSE]
Overflowed == [st |-> "panicked", v |-> 0, wrapped |-> FALSE]

\* the result r of an operation on U, as the build produces it: in range it
\* is r; out of range it is a panic with overflow checks and r modulo
\* U::MAX + 1 without
Arith(a, r, checks) ==
    IF a.st # "Ok" THEN a
    ELSE IF r \in Components THEN [a EXCEPT !.v = r]
    ELSE IF checks THEN Overflowed
    ELSE [st |-> "Ok", v |-> r % (MaxComponent + 1), wrapped |-> TRUE]

\* <U as Add>::add, <U as Sub>::sub
add(a, b, checks) == Arith(a, a.v + b, checks)
sub(a, b, checks) == Arith(a, a.v - b, checks)

\* Pair::distance_manhattan: the expression is evaluated from left to right,
\* ((max x - min x) + max y) - min y
distance_manhattan(self, other, checks) ==
    LET dx   == sub(Num(max(self.x, other.x)), min(self.x, other.x), checks)
        plus == add(dx, max(self.y, other.y), checks)
    IN  sub(plus, min(self.y, other.y), checks)

InitDist ==
    /\ overflow_checks \in BOOLEAN
    /\ lhs \in Pairs
    /\ rhs \in Pairs
    /\ dist = NoDist
    /\ GridIdle
    /\ InputIdle
    /\ PairIdle

DistanceManhattan ==
    /\ dist.st = "none"
    /\ dist' = distance_manhattan(lhs, rhs, overflow_checks)
    /\ UNCHANGED <<overflow_checks, lhs, rhs, gvars, ivars, pvars>>

NextDist == DistanceManhattan

SpecDist == InitDist /\ [][NextDist]_vars

-----------------------------------------------------------------------------
(* Properties of the grid *)

\* the content of the cell at column x, row y of grid g
Cell(g, x, y) == g.flat[(g.len_x * y) + x + 1]

\* number of rows needed for n elements in rows of w
CeilDiv(n, w) == IF w = 0 THEN 0 ELSE (n + w - 1) \div w

\* C1: get(x, y) and get_mut(x, y) with x >= len_x or y >= len_y panic; they
\* never return a reference to another cell.
C1_OutOfRangeAborts ==
    (ret.op \in {"get", "get_mut"} /\ (ret.a >= grid.len_x \/ ret.b >= grid.len_y))
        => ret.res = "panic"

\* C2: every grid a constructor returns has flat.len() = len_x * len_y, no
\* later operation changes that, and a constructor given fewer than
\* len_x * len_y elements fails instead of returning a grid.
C2_FlatLenInvariant ==
    /\ gst = "built" => Len(grid.flat) = grid.len_x * grid.len_y
    /\ (call.fn \in {"from_vec", "from_iter"} /\ call.n < call.len_x * call.len_y)
            => gst # "built"

\* C3: the grid with_borders(len_x, border, t, iter) returns has rows of
\* len_x + 2t cells, its first t and last t rows hold only the border value,
\* and so do the first t and last t columns of every row.
C3_BorderFrame ==
    (gst = "built" /\ call.fn = "with_borders") =>
        LET t == call.thickness
        IN  /\ grid.len_x = call.len_x + (2 * t)
            /\ Len(grid.flat) = grid.len_x * grid.len_y
            /\ \A y \in 0..(grid.len_y - 1), x \in 0..(grid.len_x - 1) :
                    (y < t \/ y >= grid.len_y - t \/ x < t \/ x >= grid.len_x - t)
                        => Cell(grid, x, y) = call.border

\* C4: with_borders puts the n input elements, len_x per row, inside a border
\* of exactly t cells on every side: the grid has ceil(n / len_x) + 2t rows,
\* cell (t + i, t + j) holds input element j * len_x + i when there is one, and
\* every other cell holds the border value.
C4_BorderContent ==
    (gst = "built" /\ call.fn = "with_borders") =>
        LET t == call.thickness
            w == call.len_x
        IN  /\ grid.len_y = CeilDiv(call.n, w) + (2 * t)
            /\ grid.len_x = w + (2 * t)
            /\ Len(grid.flat) = grid.len_x * grid.len_y
            /\ \A y \in 0..(grid.len_y - 1), x \in 0..(grid.len_x - 1) :
                    Cell(grid, x, y) =
                        IF /\ x >= t
                           /\ x < t + w
                           /\ y >= t
                           /\ ((y - t) * w) + (x - t) < call.n
                        THEN Input(call.n)[((y - t) * w) + (x - t) + 1]
                        ELSE call.border

C10_RowView ==
    ret.op \in {"row", "row_mut"} =>
        IF ret.a < grid.len_y
        THEN ret.res = "ok" /\ ret.r1 = ret.a * grid.len_x /\ ret.r2 = grid.len_x
        ELSE ret.res = "panic"

-----------------------------------------------------------------------------
(* Properties of the parsing helpers *)

FileLinesHelpers == {"lines_to_vec", "lines_parsed", "lines_parsed_explicit"}
FileSplitHelpers == {"split_to_vec", "split", "split_parsed", "split_parsed_explicit"}
StrLinesHelpers == {"parse::lines_into_vec", "parse::lines", "parse::lines_cloneable"}
ExplicitHelpers == {"lines_parsed_explicit", "split_parsed_explicit"}
SilentHelpers ==
    {"parse::lines_into_vec", "parse::split_into_vec", "parse::lines",
     "parse::lines_cloneable", "parse::split",
     "lines_to_vec", "split_to_vec", "lines_parsed", "split_parsed"}

\* the fields of the input under the helper's splitting rule, as the
\* underlying iterator of the standard library delivers them
Fields(h, s) ==
    IF h \in FileLinesHelpers THEN BufLines(s)
    ELSE IF h \in FileSplitHelpers THEN BufSplit(s, ",")
    ELSE IF h \in StrLinesHelpers THEN StrLines(s)
    ELSE StrSplit(s, ",")

\* field f is valid text that parses as t
Parses(t, f) == f.ok /\ "BAD" \notin Range(f.v) /\ FromStr(t, f.v).ok

\* out holds, in order and without a gap, the fields whose positions are in
\* Keep (all of them once the result is consumed), each as parsed by str::parse
YieldsExactly(Keep, fields) ==
    /\ \A k \in 1..Len(out) :
            /\ out[k].i \in Keep
            /\ Cardinality({j \in Keep : j < out[k].i}) = k - 1
            /\ out[k].ok = FromStr(ty, fields[out[k].i].v).ok
            /\ out[k].ok => out[k].v = FromStr(ty, fields[out[k].i].v).v
    /\ fin => Len(out) = Cardinality(Keep)

\* C5: in every file-based helper, once the reader has returned an I/O error
\* the produced sequence ends: nothing read after the error is yielded, nor
\* the error itself.
C5_EndsAtIoError ==
    (helper \in FileLinesHelpers \cup FileSplitHelpers) =>
        LET fields == Fields(helper, stream)
        IN  \A k \in 1..Len(out) : \A j \in 1..out[k].i : fields[j].e # "io"

\* C6: the explicit-error variants yield one result per input field, in input
\* order, Ok(value) if the field parses and Err otherwise; no field (empty,
\* non-UTF-8 or unparsable) is dropped.
C6_OneResultPerField ==
    (helper \in ExplicitHelpers /\ opened = "Ok" /\ "ERR" \notin Range(stream)) =>
        LET fields == Fields(helper, stream)
        IN  /\ \A k \in 1..Len(out) :
                    /\ out[k].i = k
                    /\ out[k].ok = Parses(ty, fields[k])
                    /\ out[k].ok => out[k].v = FromStr(ty, fields[k].v).v
            /\ fin => Len(out) = Len(fields)

\* C6 as amended: the explicit-error variants yield one result per field that
\* reaches the parser, in input order, Ok(value) if it parses and Err
\* otherwise: lines_parsed_explicit for every line read before the first line
\* that fails to read or is not UTF-8, split_parsed_explicit for every chunk
\* that was read, is not empty and is UTF-8.
C6_OneResultPerParsedField ==
    (helper \in ExplicitHelpers /\ opened = "Ok") =>
        LET fields == Fields(helper, stream)
            Keep == IF helper = "lines_parsed_explicit"
                    THEN {j \in 1..Len(fields) : \A m \in 1..j : fields[m].ok}
                    ELSE {j \in 1..Len(fields) :
                            /\ fields[j].ok
                            /\ fields[j].v # <<>>
                            /\ "BAD" \notin Range(fields[j].v)}
        IN  YieldsExactly(Keep, fields)

\* an explicit variant was consumed to its end and yielded a parse error
\* followed by a parsed value
C6_Witness ==
    /\ helper \in ExplicitHelpers
    /\ fin
    /\ \E k \in 1..Len(out) : \E m \in 1..Len(out) : k < m /\ ~out[k].ok /\ out[m].ok

\* the eager helper with the splitting rule of lazy helper h
EagerOf(h, t, s) ==
    CASE h = "lines_parsed" -> lines_to_vec(t, s)
      [] h = "split_parsed" -> split_to_vec(t, s)
      [] h \in {"parse::lines", "parse::lines_cloneable"} -> lines_into_vec(t, s)
      [] h = "parse::split" -> split_into_vec(t, s)

SameAsEager ==
    (helper \in {"lines_parsed", "split_parsed", "parse::lines", "parse::lines_cloneable",
                 "parse::split"} /\ fin)
        => out = EagerOf(helper, ty, stream)

\* C7: for every input text each silent helper returns exactly the non-empty
\* fields that parse, as parsed values in the original order; the eager and the
\* lazy helper of a splitting rule return the same sequence.
C7_NonEmptyParsedFields ==
    (helper \in SilentHelpers /\ opened = "Ok" /\ IsText(stream)) =>
        LET fields == Fields(helper, stream)
            Keep == {j \in 1..Len(fields) : fields[j].v # <<>> /\ Parses(ty, fields[j])}
        IN  YieldsExactly(Keep, fields) /\ SameAsEager

\* C7 as amended: for every input text each silent helper returns exactly the
\* fields that parse as T (an empty field too when T parses the empty string;
\* split_to_vec and split_parsed drop empty chunks whatever T is), as parsed
\* values in the original order; the eager and the lazy helper of a splitting
\* rule return the same sequence.
C7_ParsedFields ==
    (helper \in SilentHelpers /\ opened = "Ok" /\ IsText(stream)) =>
        LET fields == Fields(helper, stream)
            Keep == {j \in 1..Len(fields) :
                        /\ Parses(ty, fields[j])
                        /\ helper \in FileSplitHelpers => fields[j].v # <<>>}
        IN  YieldsExactly(Keep, fields) /\ SameAsEager

\* a silent helper has returned, from a text, a value parsed from a field that
\* follows a field it dropped
C7_Witness ==
    /\ helper \in SilentHelpers
    /\ IsText(stream)
    /\ fin
    /\ ty = "i32"
    /\ \E k \in 1..Len(out) : out[k].i > k

-----------------------------------------------------------------------------
(* Properties of Pair::from_str *)

\* C8: Pair::from_str returns Ok(Pair{x, y}) if and only if the string is
\* exactly two comma-separated fields that both parse (x the first, y the
\* second); any other string gives an error.
C8_ExactlyTwoFields ==
    pres.st # "none" =>
        LET fields == StrSplit(pstr, ",")
            two == /\ Len(fields) = 2
                   /\ FromStr(pty, fields[1].v).ok
                   /\ FromStr(pty, fields[2].v).ok
        IN  /\ pres.st = IF two THEN "Ok" ELSE "Err"
            /\ pres.st = "Ok" =>
                    /\ pres.x = FromStr(pty, fields[1].v).v
                    /\ pres.y = FromStr(pty, fields[2].v).v

-----------------------------------------------------------------------------
(* Properties of Pair::distance_manhattan *)

\* |a - b|
AbsDiff(a, b) == IF a >= b THEN a - b ELSE b - a

\* C11: for an unsigned component type, distance_manhattan(a, b) overflows or
\* underflows in no intermediate step and returns |a.x-b.x| + |a.y-b.y|
\* whenever that sum is representable; (b, a) gives the same result.
C11_NoIntermediateOverflow ==
    LET sum == AbsDiff(lhs.x, rhs.x) + AbsDiff(lhs.y, rhs.y)
    IN  (dist.st # "none" /\ sum <= MaxComponent) =>
            /\ dist = Num(sum)
            /\ distance_manhattan(rhs, lhs, overflow_checks) = dist

=============================================================================
